---- MODULE Spec2Model ----
(***************************************************************************)
(* A model of tictactoe.py: the Grid (a 9-cell list and a ply counter),    *)
(* the AI (a memoised MinMax over the Grid, with random tie-breaks) and    *)
(* the Game driver.                                                        *)
(*                                                                         *)
(* A Python list of 9 ints is a sequence of length 9: cell i of the source *)
(* (0..8) is element i + 1 of the sequence.                                *)
(***************************************************************************)
EXTENDS Integers, Sequences, FiniteSets, TLC

\* Grid.EMPTY: the mark of an empty square; 0 is 'X', 1 is 'O'.
EMPTY == 2

FirstPlayer == 0

SecondPlayer == 1

\* range(9): the legal values of 'move'.
Cells == 0..8

\* 9 * [EMPTY]: the value Grid.empty_array is created with.
NineEmpty == <<EMPTY, EMPTY, EMPTY, EMPTY, EMPTY, EMPTY, EMPTY, EMPTY, EMPTY>>

\* list.count(x)
Count(array, x) == Cardinality({i \in 1..Len(array) : array[i] = x})

(***************************************************************************)
(* Grid.  A grid value is a record [array, plies, ret]: the two attributes *)
(* and the value the last method call returned.                            *)
(***************************************************************************)

\* Grid.__init__(array): plies is counted from the array given.
GridInit(array) == [array |-> array, plies |-> 9 - Count(array, EMPTY), ret |-> TRUE]

\* Grid.clear(): a copy of the class-level list, whatever it holds now.
clear(g, class_list) == [g EXCEPT !.array = class_list, !.plies = 0]

\* A play that forgets to advance the ply counter.
play_no_count(g, move) ==
    IF g.array[move + 1] # EMPTY
    THEN [g EXCEPT !.ret = FALSE]
    ELSE [g EXCEPT !.array[move + 1] = g.plies % 2, !.ret = TRUE]

\* Grid.play(move)
play(g, move) ==
    IF g.array[move + 1] # EMPTY
    THEN [g EXCEPT !.ret = FALSE]
    ELSE [g EXCEPT !.array[move + 1] = g.plies % 2,
                   !.plies = g.plies + 1,
                   !.ret = TRUE]

\* An undo that frees the square and leaves the ply counter alone.
undo_no_count(g, move) ==
    IF g.array[move + 1] = EMPTY
    THEN [g EXCEPT !.ret = FALSE]
    ELSE [g EXCEPT !.array[move + 1] = EMPTY, !.ret = TRUE]

\* Grid.undo(move)
undo(g, move) ==
    IF g.array[move + 1] = EMPTY
    THEN [g EXCEPT !.ret = FALSE]
    ELSE [g EXCEPT !.array[move + 1] = EMPTY,
                   !.plies = g.plies - 1,
                   !.ret = TRUE]

\* The list 'regions' built by has_won, in the order it is built.
regions ==
    << <<0, 4, 8>>, <<2, 4, 6>>,
       <<0, 1, 2>>, <<0, 3, 6>>,
       <<3, 4, 5>>, <<1, 4, 7>>,
       <<6, 7, 8>>, <<2, 5, 8>> >>

\* has_them_all(region, player)
has_them_all(array, region, player) ==
    \A k \in 1..Len(region) : array[region[k] + 1] = player

\* A has_won that looks at the two diagonals only.
has_won_diagonals_only(array, player) ==
    \E r \in 1..2 : has_them_all(array, regions[r], player)

\* A has_won whose vertical alignments repeat the horizontal ones.
has_won_no_columns(array, player) ==
    \E r \in {1, 2, 3, 5, 7} : has_them_all(array, regions[r], player)

\* Grid.has_won(player)
has_won(array, player) ==
    \E r \in 1..Len(regions) : has_them_all(array, regions[r], player)

(***************************************************************************)
(* AI.  The dictionary self.dict maps tuple(grid.array) to the pair        *)
(* (evaluation, best_move): a function whose domain is the set of keys     *)
(* stored so far.                                                          *)
(*                                                                         *)
(* evaluate is modelled as it runs: one value 'st' is threaded through the *)
(* recursion and holds the grid and the dictionary (both mutated in        *)
(* place by the source), the value returned by the activation that just    *)
(* ended, and counters that observe the run: activations started, play and *)
(* undo calls made, the deepest nesting reached, stores that replaced an   *)
(* existing key, the highest plies of a grid an activation was given, and  *)
(* random() calls made.  Every activation looks its grid up in the         *)
(* dictionary or stores it, so the positions a call visits are keys of the *)
(* dictionary when it returns.                                             *)
(*                                                                         *)
(* random() < .5 is the next element of 'coins', the stream of outcomes    *)
(* the process's random generator gives: a sequence of Booleans, repeated  *)
(* from its start when it runs out.  st.flips counts the random() calls    *)
(* made so far, over all evaluate calls of the process.                    *)
(***************************************************************************)

\* The streams of period n.
CoinStreams(n) == [1..n -> BOOLEAN]

\* The outcome of the next random() < .5.
NextCoin(st, coins) == coins[(st.flips % Len(coins)) + 1]

\* inf = 2 in evaluate
inf == 2

\* tuple(grid.array): an immutable copy of the 9 cells, in order.
KeyOf(array) == array

\* A store that returns the record and keeps nothing.
Store_nothing(st, key, rec) == [st EXCEPT !.ret = rec]

\* A store that rebinds the dictionary to the new entry alone.
Store_forgetful(st, key, rec) ==
    [st EXCEPT !.dict = (key :> rec),
               !.overwrites = @ + (IF key \in DOMAIN st.dict THEN 1 ELSE 0),
               !.ret = rec]

\* d[key] = rec; return d[key]
Store(st, key, rec) ==
    [st EXCEPT !.dict = (key :> rec) @@ @,
               !.overwrites = @ + (IF key \in DOMAIN st.dict THEN 1 ELSE 0),
               !.ret = rec]

\* An update test that forgets 'val == best_val': any coin replaces.
Replaces_any_coin(val, best_val, sgn, coin) ==
    ((val - best_val) * sgn > 0) \/ coin

\* The update test of the move loop: strictly better for the side to move,
\* or equal and random() < .5 (random() is called only on a tie).
Replaces(val, best_val, sgn, coin) ==
    ((val - best_val) * sgn > 0) \/ ((val = best_val) /\ coin)

\* Whether the update test calls random(): 'or' and 'and' short-circuit.
CallsRandom(val, best_val, sgn) ==
    (~((val - best_val) * sgn > 0)) /\ (val = best_val)

\* grid.play(move) as evaluate calls it.
SearchPlay(st, move) == [st EXCEPT !.g = play(st.g, move), !.muts = @ + 1]

\* A search that forgets grid.undo(move).
SearchUndo_none(st, move) == st

\* grid.undo(move) as evaluate calls it.
SearchUndo(st, move) == [st EXCEPT !.g = undo(st.g, move), !.muts = @ + 1]

RECURSIVE evaluate(_, _, _)
RECURSIVE move_loop(_, _, _, _, _, _, _, _)

\* The loop 'for move in (i for i in range(9) if grid.array[i] == EMPTY)',
\* from index 'move' on, and the final store under 'key'.
move_loop(st, coins, depth, key, sgn, move, best_val, best_move) ==
    IF move > 8
    THEN Store(st, key, <<best_val, best_move>>)
    ELSE IF st.g.array[move + 1] # EMPTY
    THEN move_loop(st, coins, depth, key, sgn, move + 1, best_val, best_move)
    ELSE LET s1 == evaluate(SearchPlay(st, move), coins, depth + 1)
             val == s1.ret[1]
             flip == CallsRandom(val, best_val, sgn)
             take == Replaces(val, best_val, sgn, NextCoin(s1, coins))
             s2 == [s1 EXCEPT !.flips = IF flip THEN @ + 1 ELSE @]
             s3 == SearchUndo(s2, move)
         IN move_loop(s3, coins, depth, key, sgn, move + 1,
                      IF take THEN val ELSE best_val,
                      IF take THEN move ELSE best_move)

\* The name 'best_move' before the loop assigns it: no square.
Unbound == -1

\* The sign of a win the wrong way round.
WinValue_flipped(player) == 2 * player - 1

\* val = 1 - 2 * player: 1 if player is 'X', -1 otherwise.
WinValue(player) == 1 - 2 * player

\* A sign that always maximises.
Sgn_max(g) == 1

\* A sign that always minimises.
Sgn_min(g) == -1

\* sgn = 1 - 2 * (grid.plies % 2): 1 if it is 'X''s turn, -1 otherwise.
Sgn(g) == 1 - 2 * (g.plies % 2)

\* A starting value that is not beyond the evaluations: inf taken as 1.
Sentinel_small(sgn) == (-sgn) * 1

\* best_val = - sgn * inf: worse for the side to move than any evaluation.
Sentinel(sgn) == (-sgn) * inf

\* AI.evaluate(grid), one activation at nesting level 'depth'.
evaluate(st, coins, depth) ==
    LET key == KeyOf(st.g.array)
        s0 == [st EXCEPT !.calls = @ + 1,
                         !.maxdepth = IF depth > @ THEN depth ELSE @,
                         !.maxplies = IF st.g.plies > @ THEN st.g.plies ELSE @]
    IN IF key \in DOMAIN s0.dict
       THEN [s0 EXCEPT !.ret = s0.dict[key]]
       ELSE IF has_won(s0.g.array, 0)
       THEN Store(s0, key, <<WinValue(0), 0>>)
       ELSE IF has_won(s0.g.array, 1)
       THEN Store(s0, key, <<WinValue(1), 0>>)
       ELSE IF s0.g.plies = 9
       THEN Store(s0, key, <<0, 0>>)
       ELSE move_loop(s0, coins, depth, key, Sgn(s0.g), 0,
                      Sentinel(Sgn(s0.g)), Unbound)

\* What a top-level call starts from: the caller's grid, the AI's
\* dictionary, the random() calls made before it, and the observation
\* counters at zero.
Call(g, d, flips) ==
    [g |-> g, dict |-> d, ret |-> <<0, 0>>, flips |-> flips, calls |-> 0,
     muts |-> 0, maxdepth |-> 0, maxplies |-> g.plies, overwrites |-> 0]

\* A top-level call ai.evaluate(grid).
Evaluated(g, d, flips, cs) == evaluate(Call(g, d, flips), cs, 1)

(***************************************************************************)
(* State.                                                                  *)
(*   empty_array  the class attribute Grid.empty_array, one list object    *)
(*                shared by every Grid built without an argument           *)
(*   grids, glast, gops   Grid objects used through their methods alone    *)
(*   array, plies         the attributes of the grid the AI works on       *)
(*                        (Game.grid)                                      *)
(*   dict                 AI.dict                                          *)
(*   last, returned       the last call made, and what top-level evaluate  *)
(*                        calls returned so far                            *)
(*   nPlay, nUndo, nEval  the calls made so far                            *)
(*   coins, rnd           the outcomes random() < .5 gives in this process, *)
(*                        and how many were drawn (modulo the period)      *)
(*   is_computer, moves, pc   Game.is_computer, the local 'moves' of       *)
(*                        play_a_game, and where main is                   *)
(***************************************************************************)
VARIABLES empty_array, grids, glast, gops,
          array, plies, dict, last, returned, nPlay, nUndo, nEval,
          coins, rnd,
          is_computer, moves, pc

gridVars == <<grids, glast, gops>>
aiVars == <<array, plies, dict, last, returned, nPlay, nUndo, nEval,
            coins, rnd>>
gameVars == <<is_computer, moves, pc>>
vars == <<empty_array, grids, glast, gops,
          array, plies, dict, last, returned, nPlay, nUndo, nEval,
          coins, rnd,
          is_computer, moves, pc>>

\* No call made yet.
NoCall == [op |-> "none"]

\* The parts of the state a specification does not use stay as built.
GridIdle == grids = << >> /\ glast = NoCall /\ gops = 0
AIIdle ==
    /\ array = NineEmpty /\ plies = 0 /\ dict = << >>
    /\ last = NoCall /\ returned = << >>
    /\ nPlay = 0 /\ nUndo = 0 /\ nEval = 0
    /\ coins = <<TRUE>> /\ rnd = 0
GameIdle == is_computer = <<0, 0>> /\ moves = << >> /\ pc = "idle"

(***************************************************************************)
(* Grid objects used directly.  Each is [aliased, own, plies]: self.array  *)
(* is either the class-level list itself (Grid() binds self.array to the   *)
(* default argument, the object Grid.empty_array) or a list of its own.    *)
(***************************************************************************)

\* The number of method calls explored on the Grid objects.
MaxGridOps == 3

GridIds == {1, 2}

\* The lists passed to Grid(array).
ArgArrays == {NineEmpty, <<0, 1, EMPTY, EMPTY, 0, EMPTY, EMPTY, EMPTY, 1>>}

\* self.array, read through the reference.
Deref(i) == IF grids[i].aliased THEN empty_array ELSE grids[i].own

GridOf(i) == [array |-> Deref(i), plies |-> grids[i].plies, ret |-> TRUE]

\* What a method call leaves on record: the call, what it returned, the
\* attributes before it, and the call before it.
GCall(op, i, move, ret, before) ==
    [op |-> op, id |-> i, move |-> move, ret |-> ret,
     pre |-> before.array, prePlies |-> before.plies,
     prev |-> IF glast.op = "none" THEN NoCall
              ELSE [op |-> glast.op, id |-> glast.id, move |-> glast.move,
                    ret |-> glast.ret, pre |-> glast.pre,
                    prePlies |-> glast.prePlies]]

\* An in-place mutation of self.array lands in the list it refers to.
WriteBack(i, g) ==
    IF grids[i].aliased
    THEN /\ empty_array' = g.array
         /\ grids' = [grids EXCEPT ![i].plies = g.plies]
    ELSE /\ empty_array' = empty_array
         /\ grids' = [grids EXCEPT ![i].own = g.array, ![i].plies = g.plies]

\* Grid(): self.array is the default argument, the class-level list.
GridNew(i) ==
    /\ gops < MaxGridOps
    /\ LET g == GridInit(empty_array)
       IN /\ grids' = [grids EXCEPT ![i] = [aliased |-> TRUE, own |-> NineEmpty,
                                            plies |-> g.plies]]
          /\ glast' = GCall("init", i, 0, TRUE, g)
    /\ gops' = gops + 1
    /\ UNCHANGED <<empty_array, aiVars, gameVars>>

\* Grid(array) with a list of the caller's.
GridNewFrom(i, a) ==
    /\ gops < MaxGridOps
    /\ LET g == GridInit(a)
       IN /\ grids' = [grids EXCEPT ![i] = [aliased |-> FALSE, own |-> g.array,
                                            plies |-> g.plies]]
          /\ glast' = GCall("init", i, 0, TRUE, g)
    /\ gops' = gops + 1
    /\ UNCHANGED <<empty_array, aiVars, gameVars>>

\* grid.clear(): self.array is rebound to a fresh copy of the class list.
GridClear(i) ==
    /\ gops < MaxGridOps
    /\ LET g == clear(GridOf(i), empty_array)
       IN /\ grids' = [grids EXCEPT ![i] = [aliased |-> FALSE, own |-> g.array,
                                            plies |-> g.plies]]
          /\ glast' = GCall("clear", i, 0, TRUE, GridOf(i))
    /\ gops' = gops + 1
    /\ UNCHANGED <<empty_array, aiVars, gameVars>>

\* grid.play(move)
GridPlay(i, move) ==
    /\ gops < MaxGridOps
    /\ LET g == play(GridOf(i), move)
       IN /\ WriteBack(i, g)
          /\ glast' = GCall("play", i, move, g.ret, GridOf(i))
    /\ gops' = gops + 1
    /\ UNCHANGED <<aiVars, gameVars>>

\* grid.undo(move)
GridUndo(i, move) ==
    /\ gops < MaxGridOps
    /\ LET g == undo(GridOf(i), move)
       IN /\ WriteBack(i, g)
          /\ glast' = GCall("undo", i, move, g.ret, GridOf(i))
    /\ gops' = gops + 1
    /\ UNCHANGED <<aiVars, gameVars>>

\* Two grids built by Grid(), no call made on them yet.
InitGrid ==
    /\ empty_array = NineEmpty
    /\ grids = [i \in GridIds |->
                  [aliased |-> TRUE, own |-> NineEmpty,
                   plies |-> GridInit(NineEmpty).plies]]
    /\ glast = NoCall
    /\ gops = 0
    /\ AIIdle
    /\ GameIdle

NextGrid ==
    \E i \in GridIds :
        \/ GridNew(i)
        \/ \E a \in ArgArrays : GridNewFrom(i, a)
        \/ GridClear(i)
        \/ \E move \in Cells : GridPlay(i, move)
        \/ \E move \in Cells : GridUndo(i, move)

SpecGrid == InitGrid /\ [][NextGrid]_vars

(***************************************************************************)
(* One AI and one Grid, called directly: play, undo and evaluate in any    *)
(* order.  The behaviours start from positions a few play calls away from  *)
(* the empty grid.                                                         *)
(***************************************************************************)

\* How many play calls that place a mark and undo calls that free a square,
\* taken together, a behaviour makes after its opening.
MaxMoves == 2

\* How many top-level evaluate calls a behaviour makes.
MaxEvals == 3

\* The period of the stream of random() outcomes.
CoinLen == 3

\* evaluate is called on grids with at most this many empty squares.
EvalMaxEmpty == 5

\* The play calls that lead from the empty grid to the starting positions.
Openings ==
    { <<0, 3, 1, 4>>,
      <<0, 3, 1, 4, 2>>,
      <<4, 0, 8, 2, 6>>,
      <<4, 0, 8, 1>>,
      <<0, 4, 8, 2, 6, 3>>,
      <<0, 1, 2, 4, 3, 5, 7, 6>> }

\* The squares play and undo are called with.
PlayMoves == {2, 5, 8}

UndoMoves == {4, 8}

RECURSIVE PlayAll(_, _)
\* grid.play(m) for each m of 'seq', in order.
PlayAll(g, seq) ==
    IF seq = << >> THEN g ELSE PlayAll(play(g, Head(seq)), Tail(seq))

\* What a top-level evaluate call leaves on record.
ECall(before, r, known, first) ==
    [op |-> "evaluate", pre |-> before.array, prePlies |-> before.plies,
     ret |-> r.ret, calls |-> r.calls, muts |-> r.muts, flips |-> r.flips - rnd,
     maxdepth |-> r.maxdepth, maxplies |-> r.maxplies,
     overwrites |-> r.overwrites,
     known |-> known, first |-> first]

\* The grid the AI and the Game work on.
TheGrid == [array |-> array, plies |-> plies, ret |-> TRUE]

\* ai.evaluate(grid) called from outside.
DoEvaluate ==
    \E r \in {Evaluated(TheGrid, dict, rnd, coins)} :
    LET before == TheGrid
        key == KeyOf(before.array)
        known == key \in DOMAIN returned
    IN /\ array' = r.g.array
       /\ plies' = r.g.plies
       /\ dict' = r.dict
       /\ last' = ECall(before, r, known,
                        IF known THEN returned[key] ELSE [rec |-> r.ret, at |-> nEval + 1])
       /\ returned' = IF known THEN returned
                      ELSE (key :> [rec |-> r.ret, at |-> nEval + 1]) @@ returned
       /\ nEval' = nEval + 1
       /\ rnd' = r.flips % Len(coins)
       /\ coins' = coins

\* grid.play(move)
Play(move) ==
    /\ nPlay + nUndo < MaxMoves
    /\ LET g == play(TheGrid, move)
       IN /\ array' = g.array
          /\ plies' = g.plies
          /\ nPlay' = IF g.ret THEN nPlay + 1 ELSE nPlay
    /\ last' = NoCall
    /\ UNCHANGED <<empty_array, gridVars, dict, returned, nUndo, nEval, coins, rnd, gameVars>>

\* grid.undo(move)
Undo(move) ==
    /\ nPlay + nUndo < MaxMoves
    /\ LET g == undo(TheGrid, move)
       IN /\ array' = g.array
          /\ plies' = g.plies
          /\ nUndo' = IF g.ret THEN nUndo + 1 ELSE nUndo
    /\ last' = NoCall
    /\ UNCHANGED <<empty_array, gridVars, dict, returned, nPlay, nEval, coins, rnd, gameVars>>

\* ai.evaluate(grid)
Evaluate ==
    /\ nEval < MaxEvals
    /\ Count(array, EMPTY) <= EvalMaxEmpty
    /\ DoEvaluate
    /\ UNCHANGED <<empty_array, gridVars, nPlay, nUndo, gameVars>>

\* A new AI, and a grid built empty and played on along an opening.
Init ==
    /\ empty_array = NineEmpty
    /\ GridIdle
    /\ \E seq \in Openings :
          LET g == PlayAll(GridInit(NineEmpty), seq)
          IN array = g.array /\ plies = g.plies
    /\ dict = << >>
    /\ last = NoCall
    /\ returned = << >>
    /\ nPlay = 0
    /\ nUndo = 0
    /\ nEval = 0
    /\ coins \in CoinStreams(CoinLen)
    /\ rnd = 0
    /\ GameIdle

Next ==
    \/ \E move \in PlayMoves : Play(move)
    \/ \E move \in UndoMoves : Undo(move)
    \/ Evaluate

Spec == Init /\ [][Next]_vars

(***************************************************************************)
(* main and Game: games played one after the other, each by a new Game     *)
(* object with a new Grid and a new AI.                                    *)
(***************************************************************************)

\* int(answer) - 1 for the game types select_players accepts:
\* 0 player vs player, 1 player vs computer, 2 computer vs player,
\* 3 computer vs computer.
GameTypes == 0..3

\* int(move) for the numbers a player types at the prompt of player_move;
\* 0 and 10 are out of range.
TypedMoves == 0..10

\* The period of the stream of random() outcomes in the games.
GameCoinLen == 1

\* How many moves the players at the prompt make in one game.
MaxHumanMoves == 5

\* The moves of 'moves' made by a seat no computer plays.
HumanMoves ==
    Cardinality({i \in 1..Len(moves) : is_computer[((i - 1) % 2) + 1] = 0})

\* Game.current_player()
current_player(g) == g.plies % 2

\* A must_go_on that calls the draw one ply early.
must_go_on_early(g) ==
    IF has_won(g.array, 0) \/ has_won(g.array, 1) THEN FALSE
    ELSE IF g.plies >= 8 THEN FALSE
    ELSE TRUE

\* A must_go_on without the test of a full grid.
must_go_on_no_draw(g) ==
    IF has_won(g.array, 0) \/ has_won(g.array, 1) THEN FALSE
    ELSE TRUE

\* Game.must_go_on()
must_go_on(g) ==
    IF has_won(g.array, 0) \/ has_won(g.array, 1) THEN FALSE
    ELSE IF g.plies = 9 THEN FALSE
    ELSE TRUE

\* A test of player_move that checks the range alone.
ValidMove_range_only(g, move) == ~(move < 0 \/ move > 8)

\* The test of player_move: the typed number is a free square.
ValidMove(g, move) ==
    ~(move < 0 \/ move > 8) /\ g.array[move + 1] = EMPTY

\* [1] of the pair evaluate returns: the move computer_move plays.
BestMoveOf(rec) == rec[2]

\* What building a Game leaves on record: whether the dictionary of the
\* Game before it held entries.
GameCall == [op |-> "new_game", dropped |-> (dict # << >>)]

\* A main that builds its AI once, before the loop, and hands it to each
\* Game.
NewGame_sameAI(answer) ==
    /\ pc = "start"
    /\ LET g == clear(GridInit(empty_array), empty_array)
       IN array' = g.array /\ plies' = g.plies
    /\ dict' = dict
    /\ is_computer' = <<answer \div 2, answer % 2>>
    /\ moves' = << >>
    /\ last' = GameCall
    /\ returned' = << >>
    /\ pc' = "playing"
    /\ UNCHANGED <<empty_array, gridVars, nPlay, nUndo, nEval, coins, rnd>>

\* game = Game(): Grid(), AI() with its empty dictionary, select_players()
\* with its grid.clear().
NewGame(answer) ==
    /\ pc = "start"
    /\ LET g == clear(GridInit(empty_array), empty_array)
       IN array' = g.array /\ plies' = g.plies
    /\ dict' = << >>
    /\ is_computer' = <<answer \div 2, answer % 2>>
    /\ moves' = << >>
    /\ last' = GameCall
    /\ returned' = << >>
    /\ pc' = "playing"
    /\ UNCHANGED <<empty_array, gridVars, nPlay, nUndo, nEval, coins, rnd>>

\* One turn of play_a_game taken by the computer: computer_move, grid.play,
\* moves.append.
ComputerTurn ==
    /\ pc = "playing"
    /\ must_go_on(TheGrid)
    /\ is_computer[current_player(TheGrid) + 1] = 1
    /\ \E r \in {Evaluated(TheGrid, dict, rnd, coins)} :
       LET before == TheGrid
           move == BestMoveOf(r.ret)
           g == play(r.g, move)
       IN /\ array' = g.array
          /\ plies' = g.plies
          /\ dict' = r.dict
          /\ rnd' = r.flips % Len(coins)
          /\ moves' = Append(moves, move + 1)
          /\ last' = [ECall(before, r, FALSE, [rec |-> r.ret, at |-> 0])
                        EXCEPT !.op = "computer_move"]
                     @@ [move |-> move, played |-> g.ret]
    /\ UNCHANGED <<empty_array, gridVars, returned, nPlay, nUndo, nEval, coins,
                   is_computer, pc>>

\* One prompt of player_move: a number out of range or a taken square is
\* asked again; a free square is played and recorded.
HumanTurn(typed) ==
    /\ pc = "playing"
    /\ must_go_on(TheGrid)
    /\ is_computer[current_player(TheGrid) + 1] = 0
    /\ HumanMoves < MaxHumanMoves
    /\ LET move == typed - 1
       IN IF ValidMove(TheGrid, move)
          THEN LET g == play(TheGrid, move)
               IN /\ array' = g.array
                  /\ plies' = g.plies
                  /\ moves' = Append(moves, move + 1)
                  /\ last' = [op |-> "player_move", move |-> move,
                              played |-> g.ret, pre |-> array,
                              prePlies |-> plies]
          ELSE UNCHANGED <<array, plies, moves, last>>
    /\ UNCHANGED <<empty_array, gridVars, dict, returned, nPlay, nUndo, nEval,
                   coins, rnd, is_computer, pc>>

\* must_go_on() is false: play_a_game returns.
GameOver ==
    /\ pc = "playing"
    /\ ~must_go_on(TheGrid)
    /\ pc' = "over"
    /\ UNCHANGED <<empty_array, gridVars, aiVars, is_computer, moves>>

\* wants_to_play_again(): main loops to a new Game, or leaves.
PlayAgain(yes) ==
    /\ pc = "over"
    /\ pc' = IF yes THEN "start" ELSE "bye"
    /\ UNCHANGED <<empty_array, gridVars, aiVars, is_computer, moves>>

\* main is about to build its first Game.
InitGame ==
    /\ empty_array = NineEmpty
    /\ GridIdle
    /\ array = NineEmpty /\ plies = 0 /\ dict = << >>
    /\ last = NoCall /\ returned = << >>
    /\ nPlay = 0 /\ nUndo = 0 /\ nEval = 0
    /\ coins \in CoinStreams(GameCoinLen)
    /\ rnd = 0
    /\ is_computer = <<0, 0>>
    /\ moves = << >>
    /\ pc = "start"

NextGame ==
    \/ \E answer \in GameTypes : NewGame(answer)
    \/ ComputerTurn
    \/ \E typed \in TypedMoves : HumanTurn(typed)
    \/ GameOver
    \/ \E yes \in BOOLEAN : PlayAgain(yes)

SpecGame == InitGame /\ [][NextGame]_vars

(***************************************************************************)
(* has_won called on a Grid built from any list of nine marks.             *)
(***************************************************************************)

\* The lists of nine marks Grid(array) can be given.
Configurations == [1..9 -> {FirstPlayer, SecondPlayer, EMPTY}]

\* grid.has_won(player): it reads self.array and assigns nothing.
HasWon(player) ==
    /\ last' = [op |-> "has_won", player |-> player,
                ret |-> has_won(array, player),
                pre |-> array, prePlies |-> plies]
    /\ UNCHANGED <<empty_array, gridVars, array, plies, dict, returned,
                   nPlay, nUndo, nEval, coins, rnd, gameVars>>

\* grid = Grid(array)
InitWon ==
    /\ empty_array = NineEmpty
    /\ GridIdle
    /\ \E a \in Configurations :
          LET g == GridInit(a) IN array = g.array /\ plies = g.plies
    /\ dict = << >>
    /\ last = NoCall
    /\ returned = << >>
    /\ nPlay = 0 /\ nUndo = 0 /\ nEval = 0
    /\ coins = <<TRUE>> /\ rnd = 0
    /\ GameIdle

NextWon == \E player \in {FirstPlayer, SecondPlayer} : HasWon(player)

SpecWon == InitWon /\ [][NextWon]_vars

(***************************************************************************)
(* The properties.  They are stated from the rules of the game, not from   *)
(* the operators above: the eight lines, who moves, and what a move does.  *)
(***************************************************************************)

\* The eight lines of three squares.
WinLines ==
    { {0, 1, 2}, {3, 4, 5}, {6, 7, 8}, {0, 3, 6}, {1, 4, 7}, {2, 5, 8},
      {0, 4, 8}, {2, 4, 6} }

\* Side s holds all three squares of a line.
Aligned(a, s) == \E line \in WinLines : \A c \in line : a[c + 1] = s

\* The empty squares of a.
Free(a) == {c \in Cells : a[c + 1] = EMPTY}

Marks(a, s) == Cardinality({c \in Cells : a[c + 1] = s})

\* The side to move: FirstPlayer on an even number of marks.
Mover(a) ==
    IF (9 - Cardinality(Free(a))) % 2 = 0 THEN FirstPlayer ELSE SecondPlayer

\* a with square c marked by the side to move.
Child(a, c) == [a EXCEPT ![c + 1] = Mover(a)]

\* A position of a legal game that is not over.
LegalOpen(a) ==
    /\ Marks(a, FirstPlayer) - Marks(a, SecondPlayer) \in {0, 1}
    /\ ~Aligned(a, FirstPlayer)
    /\ ~Aligned(a, SecondPlayer)
    /\ Free(a) # {}

SetMax(S) == CHOOSE x \in S : \A y \in S : y <= x

SetMin(S) == CHOOSE x \in S : \A y \in S : x <= y

\* rec is a MinMax record of position a, given the values d holds for the
\* positions one move away.
MinMaxRecord(d, a, rec) ==
    /\ \A c \in Free(a) : Child(a, c) \in DOMAIN d
    /\ rec[2] \in Free(a)
    /\ d[Child(a, rec[2])][1] = rec[1]
    /\ LET vals == {d[Child(a, c)][1] : c \in Free(a)}
       IN rec[1] = IF Mover(a) = FirstPlayer THEN SetMax(vals) ELSE SetMin(vals)

\* The last call was a top-level evaluate (made directly, or by
\* computer_move).
Evaluating == last.op \in {"evaluate", "computer_move"}

\* C1: after evaluate(p) returns, the array and plies of p are what they
\* were before the call, whatever the coins and the dictionary were.
C1_Restored ==
    Evaluating => (array = last.pre /\ plies = last.prePlies)

\* An evaluate that played and undid moves, drew coins, and started from a
\* dictionary earlier calls had filled.
C1_Witness ==
    /\ last.op = "evaluate" /\ last.muts > 0 /\ last.flips > 0 /\ nEval >= 2
    /\ array = last.pre /\ plies = last.prePlies

\* C2: on a position of a legal game that is not over, the record evaluate
\* returns is the MinMax of the records of the positions one move away:
\* best_move is an empty square, the position it leads to has the returned
\* value, and the value is the maximum (FirstPlayer to move) or the minimum
\* (SecondPlayer to move) over the empty squares.  It holds of the record of
\* the top-level call and of the record each nested activation stored.
C2_MinMax ==
    /\ (Evaluating /\ LegalOpen(last.pre))
          => MinMaxRecord(dict, last.pre, last.ret)
    /\ (Evaluating /\ last.calls > 1)
          => \A k \in DOMAIN dict : LegalOpen(k) => MinMaxRecord(dict, k, dict[k])

\* The computer opened a game: the whole tree was searched, with coins
\* drawn, and the record respects MinMax.
C2_Witness ==
    /\ last.op = "computer_move" /\ last.pre = NineEmpty
    /\ last.calls > 1 /\ last.flips > 0
    /\ MinMaxRecord(dict, last.pre, last.ret)

\* C3 as claimed: 1 whenever FirstPlayer has a line, -1 whenever
\* SecondPlayer has a line, 0 on a full grid without a line; of the record
\* returned and of every record in the dictionary.
C3_TerminalAsClaimed ==
    last.op = "evaluate" =>
        /\ Aligned(last.pre, FirstPlayer) => last.ret[1] = 1
        /\ Aligned(last.pre, SecondPlayer) => last.ret[1] = -1
        /\ (Free(last.pre) = {} /\ ~Aligned(last.pre, FirstPlayer)
                /\ ~Aligned(last.pre, SecondPlayer)) => last.ret[1] = 0
        /\ \A k \in DOMAIN dict :
              /\ Aligned(k, FirstPlayer) => dict[k][1] = 1
              /\ Aligned(k, SecondPlayer) => dict[k][1] = -1
              /\ (Free(k) = {} /\ ~Aligned(k, FirstPlayer)
                      /\ ~Aligned(k, SecondPlayer)) => dict[k][1] = 0

\* C3, amended: 1 whenever FirstPlayer has a line, -1 whenever SecondPlayer
\* has a line and FirstPlayer has none, 0 on a full grid without a line; of
\* the record returned and of every record in the dictionary.
C3_Terminal ==
    last.op = "evaluate" =>
        /\ Aligned(last.pre, FirstPlayer) => last.ret[1] = 1
        /\ (Aligned(last.pre, SecondPlayer) /\ ~Aligned(last.pre, FirstPlayer))
              => last.ret[1] = -1
        /\ (Free(last.pre) = {} /\ ~Aligned(last.pre, FirstPlayer)
                /\ ~Aligned(last.pre, SecondPlayer)) => last.ret[1] = 0
        /\ \A k \in DOMAIN dict :
              /\ Aligned(k, FirstPlayer) => dict[k][1] = 1
              /\ (Aligned(k, SecondPlayer) /\ ~Aligned(k, FirstPlayer))
                    => dict[k][1] = -1
              /\ (Free(k) = {} /\ ~Aligned(k, FirstPlayer)
                      /\ ~Aligned(k, SecondPlayer)) => dict[k][1] = 0

\* evaluate on a grid where play went on after a win, so that both sides
\* hold a line: FirstPlayer's line decides.
C3_Witness ==
    /\ last.op = "evaluate"
    /\ Aligned(last.pre, FirstPlayer) /\ Aligned(last.pre, SecondPlayer)
    /\ last.ret[1] = 1

\* C4: a top-level evaluate on cells a top-level evaluate was already given
\* returns the record the first call returned, in one activation, without a
\* play, an undo or a coin.
C4_Idempotent ==
    (last.op = "evaluate" /\ last.known) =>
        /\ last.ret = last.first.rec
        /\ last.calls = 1
        /\ last.muts = 0
        /\ last.flips = 0

\* The third call repeats the first, on a position that is not over, after
\* a call on other cells.
C4_Witness ==
    /\ last.op = "evaluate" /\ last.known
    /\ nEval = 3 /\ last.first.at = 1
    /\ Cardinality(DOMAIN returned) = 2
    /\ LegalOpen(last.pre)
    /\ last.ret = last.first.rec

\* C5: evaluate gives the empty grid, and the grid after any single first
\* move, the value 0.
C5_Draw ==
    /\ (Evaluating /\ Cardinality(Free(last.pre)) >= 8) => last.ret[1] = 0
    /\ (Evaluating /\ last.calls > 1) =>
          \A k \in DOMAIN dict :
              (Marks(k, SecondPlayer) = 0 /\ Marks(k, FirstPlayer) <= 1)
                  => dict[k][1] = 0

\* The computer answers a first move in the centre.
C5_Witness ==
    /\ last.op = "computer_move"
    /\ last.pre = [NineEmpty EXCEPT ![4 + 1] = FirstPlayer]
    /\ last.calls > 1
    /\ last.ret[1] = 0

\* C6: a game between two computers that is over is a draw: nine plies and
\* no line.
C6_ComputersDraw ==
    (is_computer = <<1, 1>> /\ pc \in {"over", "bye"}) =>
        /\ plies = 9
        /\ ~Aligned(array, FirstPlayer)
        /\ ~Aligned(array, SecondPlayer)

\* A game between two computers, played to its end.
C6_Witness ==
    /\ is_computer = <<1, 1>> /\ pc = "over"
    /\ Len(moves) = 9 /\ plies = 9

\* X on squares 0 and 1, O on squares 3 and 4, X to move.
Scenario == <<0, 0, EMPTY, 1, 1, EMPTY, EMPTY, EMPTY, EMPTY>>

\* C7: on the scenario evaluate returns value 1 and best_move 2.
C7_Scenario ==
    (last.op = "evaluate" /\ last.pre = Scenario /\ last.prePlies = 4)
        => last.ret = <<1, 2>>

\* evaluate searched the scenario, drawing coins on the way.
C7_Witness ==
    /\ last.op = "evaluate" /\ last.pre = Scenario /\ last.prePlies = 4
    /\ last.calls > 1 /\ last.flips > 0
    /\ last.ret = <<1, 2>>

\* What the last call on a Grid object left in it.
GNow == Deref(glast.id)

GPliesNow == grids[glast.id].plies

\* C8: play(m) returns False and changes nothing iff square m was taken;
\* otherwise it returns True, marks m for FirstPlayer on even plies and for
\* SecondPlayer on odd plies, leaves the other squares, and adds one ply.
C8_PlayLegality ==
    glast.op = "play" =>
        LET m == glast.move
            taken == glast.pre[m + 1] # EMPTY
        IN /\ (glast.ret = FALSE) <=> taken
           /\ taken => (GNow = glast.pre /\ GPliesNow = glast.prePlies)
           /\ (~taken) =>
                 /\ glast.ret = TRUE
                 /\ GNow[m + 1] = IF glast.prePlies % 2 = 0
                                  THEN FirstPlayer ELSE SecondPlayer
                 /\ \A c \in Cells \ {m} : GNow[c + 1] = glast.pre[c + 1]
                 /\ GPliesNow = glast.prePlies + 1

\* A play refused on a taken square, right after a play by SecondPlayer
\* that was accepted.
C8_Witness ==
    /\ glast.op = "play" /\ glast.ret = FALSE
    /\ glast.prev.op = "play" /\ glast.prev.ret = TRUE
    /\ glast.prev.prePlies % 2 = 1
    /\ GNow = glast.pre

\* C9: play(m) on an empty square followed at once by undo(m) restores the
\* array and plies, and that undo returns True; undo(m) on an empty square
\* returns False and changes nothing.
C9_UndoInverse ==
    /\ (/\ glast.op = "undo"
        /\ glast.prev.op = "play"
        /\ glast.prev.id = glast.id
        /\ glast.prev.move = glast.move
        /\ glast.prev.pre[glast.move + 1] = EMPTY)
          => /\ glast.ret = TRUE
             /\ GNow = glast.prev.pre
             /\ GPliesNow = glast.prev.prePlies
    /\ (glast.op = "undo" /\ glast.pre[glast.move + 1] = EMPTY)
          => /\ glast.ret = FALSE
             /\ GNow = glast.pre
             /\ GPliesNow = glast.prePlies

\* An undo that takes back the play before it, on a grid that already held
\* a mark.
C9_Witness ==
    /\ glast.op = "undo" /\ glast.ret = TRUE
    /\ glast.prev.op = "play" /\ glast.prev.id = glast.id
    /\ glast.prev.move = glast.move /\ glast.prev.ret = TRUE
    /\ glast.prev.pre # NineEmpty
    /\ GNow = glast.prev.pre

\* C10: after clear() all nine squares are Empty and plies is 0, however
\* the Grid was built and whatever was called before.
C10_ClearEmpties ==
    glast.op = "clear" => (GNow = NineEmpty /\ GPliesNow = 0)

\* C11: has_won(s) is true iff s holds all three squares of one of the
\* eight lines, and the call leaves the array and plies as they were.
C11_HasWon ==
    last.op = "has_won" =>
        /\ last.ret <=> Aligned(last.pre, last.player)
        /\ array = last.pre
        /\ plies = last.prePlies

\* has_won(SecondPlayer) is true on a grid where only the middle column is
\* a line, and FirstPlayer holds no line.
C11_Witness ==
    /\ last.op = "has_won" /\ last.player = SecondPlayer /\ last.ret = TRUE
    /\ \A c \in {1, 4, 7} : last.pre[c + 1] = SecondPlayer
    /\ \A line \in WinLines \ {{1, 4, 7}} :
          \E c \in line : last.pre[c + 1] # SecondPlayer
    /\ ~Aligned(last.pre, FirstPlayer)
    /\ array = last.pre

\* Every entry of the dictionary is there, with the same record, after the
\* step.
EntriesKept ==
    \/ dict' = dict
    \/ \A k \in DOMAIN dict : k \in DOMAIN dict' /\ dict'[k] = dict[k]

\* C12 as claimed: in one run of main the entries of the dictionary stay
\* from one game to the next: no step loses or changes one.
C12_ReusedAcrossGames == [][EntriesKept]_vars

\* C12, amended: the entries stay for the length of one game; building the
\* next Game builds a new AI, whose dictionary is empty.
C12_ReusedWithinGame ==
    [][/\ (pc = "playing") => EntriesKept
       /\ (pc = "start" /\ pc' = "playing") => dict' = << >>]_vars

\* A second Game has just been built after a game in which the computer
\* searched: the entries of that game are gone.
C12_Witness ==
    /\ pc = "playing" /\ last.op = "new_game" /\ last.dropped = TRUE
    /\ dict = << >> /\ moves = << >>

\* The evaluations: a win for 'X', a draw, a win for 'O'.
Evaluations == {-1, 0, 1}

\* C13: every record returned by evaluate or stored in the dictionary has
\* an evaluation among -1, 0, 1 (never the starting value -sgn * 2) and a
\* best_move that was assigned: a square, and an empty one where the
\* position has an empty square and no line.
C13_NoSentinel ==
    Evaluating =>
        /\ last.ret[1] \in Evaluations
        /\ last.ret[2] \in Cells
        /\ \A k \in DOMAIN dict :
              /\ dict[k][1] \in Evaluations
              /\ dict[k][2] \in Cells
              /\ (Free(k) # {} /\ ~Aligned(k, FirstPlayer)
                      /\ ~Aligned(k, SecondPlayer)) => dict[k][2] \in Free(k)

\* A search for SecondPlayer, whose starting value is 2, that ends on the
\* evaluation 1: every move tried gave the worst evaluation there is, and
\* the first of them still replaced the starting value.
C13_Witness ==
    /\ last.op = "evaluate" /\ last.calls > 1
    /\ Mover(last.pre) = SecondPlayer /\ last.prePlies % 2 = 1
    /\ last.ret[1] = 1
    /\ last.ret[2] \in Free(last.pre)

\* C14: in every state reached by building Grid objects, with or without
\* an array argument, and calling clear, play and undo on them, plies of
\* each object is the number of squares of its array that are not empty.
C14_PliesCount ==
    \A i \in DOMAIN grids :
        grids[i].plies = Cardinality({c \in Cells : Deref(i)[c + 1] # EMPTY})

\* C15: the dictionary of an AI only grows: no step removes a key or
\* changes the record of a key, and no store of an evaluate call, nested
\* ones included, is made under a key the dictionary already holds.
C15_InsertOnly ==
    [][/\ EntriesKept
       /\ (last'.op = "evaluate") => (last'.overwrites = 0)]_vars

\* A second evaluate that searched, on other cells than the first: it added
\* its keys, replaced none, and the record of the first call is still there.
C15_Witness ==
    /\ last.op = "evaluate" /\ nEval = 2 /\ ~last.known
    /\ last.calls > 1 /\ last.overwrites = 0
    /\ Cardinality(DOMAIN returned) = 2
    /\ \A k \in DOMAIN returned :
          k \in DOMAIN dict /\ dict[k] = returned[k].rec

\* The last step committed a move of play_a_game.
Committed == last.op \in {"computer_move", "player_move"}

\* C16: every move play_a_game commits is a square 0..8 that was empty, and
\* grid.play returned True for it; the position computer_move gave to
\* evaluate had no line and fewer than nine plies, and the best_move it got
\* back was an empty square of it.
C16_MovesLegal ==
    /\ Committed =>
          /\ last.move \in Cells
          /\ last.pre[last.move + 1] = EMPTY
          /\ last.played = TRUE
    /\ (last.op = "computer_move") =>
          /\ ~Aligned(last.pre, FirstPlayer)
          /\ ~Aligned(last.pre, SecondPlayer)
          /\ last.prePlies < 9
          /\ last.ret[2] = last.move
          /\ last.ret[2] \in Free(last.pre)

\* The computer commits the last move of a game: the ninth, on the one
\* square left.
C16_Witness ==
    /\ last.op = "computer_move" /\ last.played = TRUE
    /\ last.prePlies = 8 /\ Free(last.pre) = {last.move}
    /\ Len(moves) = 9

\* The other seat.
Opponent(seat) == 1 - seat

\* C17: while a game is played and once it is over, no seat played by the
\* computer has lost: its opponent holds no line, whatever squares the
\* opponent took and whatever the coins were.
C17_ComputerNeverLoses ==
    pc \in {"playing", "over", "bye"} =>
        \A seat \in {FirstPlayer, SecondPlayer} :
            (is_computer[seat + 1] = 1) => ~Aligned(array, Opponent(seat))

\* A game of a player, who moves first, against the computer, which the
\* computer has won.
C17_Witness ==
    /\ pc = "over" /\ is_computer = <<0, 1>>
    /\ Aligned(array, SecondPlayer) /\ ~Aligned(array, FirstPlayer)
    /\ last.op = "computer_move"

\* Both sides hold a line.
BothAligned(a) == Aligned(a, FirstPlayer) /\ Aligned(a, SecondPlayer)

\* C18: in no position play_a_game commits, and in no position an evaluate
\* call of computer_move visits (each is a key of the dictionary once the
\* call returns), do both sides hold a line.
C18_OneWinner ==
    /\ (pc \in {"playing", "over", "bye"}) => ~BothAligned(array)
    /\ (last.op = "computer_move") => ~BothAligned(last.pre)
    /\ (last.op = "computer_move" /\ last.calls > 1) =>
          \A k \in DOMAIN dict : ~BothAligned(k)

\* The computer opened a game: its search visited positions won by either
\* side, and none won by both.
C18_Witness ==
    /\ last.op = "computer_move" /\ last.pre = NineEmpty /\ last.calls > 1
    /\ \E k \in DOMAIN dict : Aligned(k, FirstPlayer)
    /\ \E k \in DOMAIN dict : Aligned(k, SecondPlayer)
    /\ \A k \in DOMAIN dict : ~BothAligned(k)

\* C19 as claimed: an evaluate call returns, and never has more than 9
\* activations nested.
C19_DepthNine ==
    Evaluating => last.maxdepth <= 9

\* C19, amended: an evaluate call returns, and never has more than 10
\* activations nested: the call itself and one per empty square of the
\* grid it was given, each level working on a grid one ply further.
C19_DepthTen ==
    Evaluating =>
        /\ last.maxdepth <= 10
        /\ last.maxdepth <= 1 + Cardinality(Free(last.pre))
        /\ last.maxdepth - 1 = last.maxplies - last.prePlies

\* The call on the empty grid: ten activations nested, the deepest on a
\* full grid.
C19_Witness ==
    /\ last.op = "computer_move" /\ last.pre = NineEmpty
    /\ last.maxdepth = 10 /\ last.maxplies = 9

\* The squares recorded in 'moves' are pairwise distinct numbers 1..9.
MovesDistinct ==
    /\ \A i \in 1..Len(moves) : moves[i] \in 1..9
    /\ \A i, j \in 1..Len(moves) : (i # j) => (moves[i] # moves[j])

\* A game that has begun.
InGame == pc \in {"playing", "over", "bye"}

\* Exactly one side holds a line.
OneAligned(a) == Aligned(a, FirstPlayer) # Aligned(a, SecondPlayer)

\* C20: a game ends within 9 committed moves: each committed move is a new
\* square 1..9 and adds one ply, so 'moves' is as long as plies and never
\* longer than 9, and below 9 plies a square is left for the next move; and
\* once play_a_game has returned, exactly one side has a line or plies is 9.
C20_GameEnds ==
    InGame =>
        /\ Len(moves) <= 9
        /\ Len(moves) = plies
        /\ MovesDistinct
        /\ Cardinality(Free(array)) = 9 - plies
        /\ (pc \in {"over", "bye"}) => (OneAligned(array) \/ plies = 9)

\* A game between a player and the computer that ended on the ninth move
\* without a line.
C20_Witness ==
    /\ pc = "over" /\ is_computer = <<0, 1>>
    /\ Len(moves) = 9 /\ plies = 9 /\ MovesDistinct
    /\ ~Aligned(array, FirstPlayer) /\ ~Aligned(array, SecondPlayer)

====
